---- MODULE Spec2Model ----
(***************************************************************************)
(* Model of netsync/block_keeper.go: the blockKeeper of the bytom node.    *)
(*                                                                         *)
(*   - pendingProcessCh, txsProcessCh and quitReqBlockCh are Go buffered   *)
(*     channels: a FIFO buffer of bounded capacity plus the queue of       *)
(*     senders parked on a full buffer.                                    *)
(*   - BlockRequestWorker / BlockRequest run once per session; a session   *)
(*     is one goroutine calling BlockRequestWorker(peerID, maxPeerHeight). *)
(*   - txsProcessWorker is the goroutine started by newBlockKeeper.        *)
(*   - protocol.Chain, peerSet and p2p.Switch are collaborators whose code *)
(*     is outside netsync/block_keeper.go; their results are chosen        *)
(*     nondeterministically within the interface the keeper relies on.     *)
(*                                                                         *)
(* uint64 values are written as their two's-complement residue: a small    *)
(* natural n stands for n, and -n stands for 2^64 - n.  ULe is the         *)
(* unsigned comparison on that representation, so 0 - 1 = -1 is the        *)
(* largest uint64, exactly as num-- computes it.                           *)
(***************************************************************************)
EXTENDS Integers, Sequences, FiniteSets, TLC

\* ------------------------------------------------------------------ bounds

\* Largest chain / block height of the model.
MaxHeight == 2

\* Seconds by which one Tick advances the clock.
TickStep == 10

\* Largest height IsCaughtUp is applied to.
MaxStatusHeight == 7

\* Most values a channel buffers in the model: a channel made with capacity
\* c buffers Min(c, MaxBuf) values.
MaxBuf == 1

\* ------------------------------------------------------- program constants

\* syncTimeout and requestRetryTicker, in seconds.
syncTimeout == 30
requestRetryTicker == 15

maxBlocksPending == 1024
maxtxsPending == 32768
maxQuitReq == 256

nil == "nil"
errGetBlockTimeout == "Get block Timeout"
errPeerDropped == "Peer dropped"
errCommAbnorm == "Peer communication abnormality"
errScamPeer == "Scam peer"
errReqBlock == "Request block error"

\* An error of a collaborator (transport, validation): anything but nil.
errOther == "collaborator error"

\* ----------------------------------------------------------------- domains

Peers == {"A", "B"}
Sessions == {1, 2}

\* The goroutines of the network layer that call AddBlock and AddTx.
Callers == {"reactor"}
Heights == 0..MaxHeight

NilBlock == [nil |-> TRUE]
Block(h) == [Height |-> h]
Blocks == {Block(h) : h \in Heights}

\* type pendingResponse struct { block; peerID }
pendingResponse(b, p) == [block |-> b, peerID |-> p]

\* type txsNotify struct { tx; peerID }; a transaction is its ID.
TxIDs == {"t1", "t2"}
txsNotify(t, p) == [tx |-> t, peerID |-> p]

\* ------------------------------------------------------------------ uint64

\* a <= b on uint64.
ULe(a, b) ==
    IF a < 0
    THEN b < 0 /\ a <= b
    ELSE b < 0 \/ a <= b

\* a < b on uint64.
ULt(a, b) == ULe(a, b) /\ a # b

\* x + 1 and x - 1 on uint64 (2^64 - 1 is -1, so both wrap through 0).
UInc(x) == x + 1
UDec(x) == x - 1

Max(a, b) == IF a >= b THEN a ELSE b

\* ---------------------------------------------------------------- channels

\* make(chan T, cap): a channel is [buf, sendq]: the buffered values, and
\* the goroutines parked on the full buffer with the value each is sending,
\* both oldest first.
MakeChan == [buf |-> <<>>, sendq |-> <<>>]

\* The capacity of a channel made with make(chan T, c).
Cap(c) == IF c <= MaxBuf THEN c ELSE MaxBuf

\* The values a channel holds, buffered and parked, oldest first.
Contents(ch) == ch.buf \o [i \in 1..Len(ch.sendq) |-> ch.sendq[i].v]

\* Goroutine g is parked in a send on ch.
Parked(ch, g) == \E i \in 1..Len(ch.sendq) : ch.sendq[i].g = g

\* Faulty variant of ChanSend: a send on a full buffer loses the value.
ChanSendLossy(ch, cap, g, v) ==
    IF Len(ch.buf) < cap
    THEN [ch EXCEPT !.buf = Append(@, v)]
    ELSE ch

\* ch <- v by goroutine g.  The value enters the buffer if there is room;
\* otherwise g parks with it.
ChanSend(ch, cap, g, v) ==
    IF Len(ch.buf) < cap
    THEN [ch EXCEPT !.buf = Append(@, v)]
    ELSE [ch EXCEPT !.sendq = Append(@, [g |-> g, v |-> v])]

\* A receive is possible when the buffer holds a value.
ChanReady(ch) == Len(ch.buf) > 0

\* The value <-ch yields.
ChanHead(ch) == Head(ch.buf)

\* The channel after <-ch: the oldest value leaves; the first parked sender,
\* if any, completes its send into the freed slot and runs on.
ChanRecv(ch) ==
    IF Len(ch.sendq) > 0
    THEN [buf |-> Append(Tail(ch.buf), Head(ch.sendq).v), sendq |-> Tail(ch.sendq)]
    ELSE [ch EXCEPT !.buf = Tail(@)]

\* ------------------------------------------------------------------- state

VARIABLES
    \* collaborators
    chainHeight,       \* bk.chain.Height()
    bestPeerHeight,    \* the height bk.peers.BestPeer() reports
    \* blockKeeper
    pendingProcessCh,
    txsProcessCh,
    quitReqBlockCh,
    \* IsCaughtUp: the last call, [local, best, ret], or <<>> before any
    caughtUp,
    \* one BlockRequestWorker call per session
    live,              \* the sessions that may run
    wpc,               \* where the session is
    peerID,
    maxPeerHeight,
    num,
    block,             \* block, err := bk.BlockRequest(peerID, num)
    err,               \* ... and isOrphan, err = bk.chain.ProcessBlock(block)
    isOrphan,          \* ProcessBlock's first result (its second is err)
    ret,               \* what BlockRequestWorker returned
    \* BlockRequest's timers
    retryTicker,       \* seconds until the ticker next fires
    retryC,            \* a tick waits in the ticker's channel
    syncWait,          \* seconds until syncWait fires
    \* observations
    elapsed,           \* seconds since the first dispatch of the request
    lastReq,           \* the last requestBlockByHeight(peerID, height)
    nReq,              \* requests dispatched by the current BlockRequest
    processed,         \* ProcessBlock was called in the current iteration
    nDrop,             \* DropPeer(peerID) calls of the session
    nScam,             \* AddScamPeer calls of the session
    skipped,           \* the current BlockRequest has discarded a response
    ideal,             \* the call has run undisturbed so far: it started at
                       \* or below maxPeerHeight, every dispatch succeeded,
                       \* every request ended with its block, ProcessBlock
                       \* put every block on top of the chain, and no other
                       \* source changed the chain
    lost,              \* some send ended otherwise than with its value the
                       \* newest the channel holds
    \* txsProcessWorker: the last notification handled,
    \* [peerID, tx, isOrphan, err, marked, scam], or <<>> before any
    txLast

chainVars == <<chainHeight, bestPeerHeight>>
chanVars == <<pendingProcessCh, txsProcessCh, quitReqBlockCh, lost>>
workerVars == <<wpc, peerID, maxPeerHeight, num, block, err, isOrphan, ret>>
timerVars == <<retryTicker, retryC, syncWait, elapsed>>
obsVars == <<lastReq, nReq, processed, nDrop, nScam, skipped, ideal>>
vars == <<chainVars, chanVars, caughtUp, live, workerVars, timerVars, obsVars, txLast>>

\* ------------------------------------------------------------ construction

\* newBlockKeeper: empty channels; no session has started; txsProcessWorker
\* is running and has handled nothing.
InitKeeper ==
    /\ pendingProcessCh = MakeChan
    /\ txsProcessCh = MakeChan
    /\ quitReqBlockCh = MakeChan
    /\ lost = FALSE
    /\ caughtUp = <<>>
    /\ wpc = [s \in Sessions |-> "idle"]
    /\ peerID = [s \in Sessions |-> "A"]
    /\ maxPeerHeight = [s \in Sessions |-> 0]
    /\ num = [s \in Sessions |-> 0]
    /\ block = [s \in Sessions |-> NilBlock]
    /\ err = [s \in Sessions |-> nil]
    /\ isOrphan = [s \in Sessions |-> FALSE]
    /\ ret = [s \in Sessions |-> nil]
    /\ retryTicker = [s \in Sessions |-> 0]
    /\ retryC = [s \in Sessions |-> FALSE]
    /\ syncWait = [s \in Sessions |-> 0]
    /\ elapsed = [s \in Sessions |-> 0]
    /\ lastReq = [s \in Sessions |-> <<>>]
    /\ nReq = [s \in Sessions |-> 0]
    /\ processed = [s \in Sessions |-> FALSE]
    /\ nDrop = [s \in Sessions |-> 0]
    /\ nScam = [s \in Sessions |-> 0]
    /\ skipped = [s \in Sessions |-> FALSE]
    /\ ideal = [s \in Sessions |-> FALSE]
    /\ txLast = <<>>

\* One session, any local height.
Init ==
    /\ InitKeeper
    /\ chainHeight \in Heights
    /\ bestPeerHeight = 0
    /\ live = {1}

\* ------------------------------------------------------------ collaborators

\* The results peers.requestBlockByHeight(peerID, height) may give.
RequestResults == {nil, errOther}

\* The results chain.ProcessBlock(block) may give: (isOrphan, err).
ProcessResults == BOOLEAN \X {nil, errOther}

\* The local height after chain.ProcessBlock(b) gave (o, e): a block accepted
\* on top of the best block extends the chain by one; an orphan, a rejected
\* block or a block at any other height leaves the height as it is.
HeightAfterProcess(h, b, o, e) ==
    IF ~o /\ e = nil /\ b.Height = h + 1 THEN h + 1 ELSE h

\* A block applied by another source than this driver (a gossiped block).
Gossip ==
    /\ chainHeight < MaxHeight
    /\ chainHeight' = chainHeight + 1
    /\ ideal' = [s \in Sessions |-> FALSE]
    /\ UNCHANGED <<bestPeerHeight, chanVars, caughtUp, live, workerVars,
                   timerVars, lastReq, nReq, processed, nDrop, nScam, skipped,
                   txLast>>

\* ----------------------------------------------------------------- ingress

\* Goroutine g is parked in AddBlock or AddTx: it makes no other call.
Busy(g) == Parked(pendingProcessCh, g) \/ Parked(txsProcessCh, g)

\* func (bk *blockKeeper) AddBlock(block, peerID), called by goroutine g.
AddBlock(g, b, p) ==
    /\ ~Busy(g)
    /\ pendingProcessCh' =
           ChanSend(pendingProcessCh, Cap(maxBlocksPending), g, pendingResponse(b, p))
    /\ lost' = (lost \/ Contents(pendingProcessCh') #
                            Append(Contents(pendingProcessCh), pendingResponse(b, p)))
    /\ UNCHANGED <<chainVars, txsProcessCh, quitReqBlockCh, caughtUp, live,
                   workerVars, timerVars, obsVars, txLast>>

\* func (bk *blockKeeper) AddTx(tx, peerID), called by goroutine g.
AddTx(g, t, p) ==
    /\ ~Busy(g)
    /\ txsProcessCh' = ChanSend(txsProcessCh, Cap(maxtxsPending), g, txsNotify(t, p))
    /\ lost' = (lost \/ Contents(txsProcessCh') #
                            Append(Contents(txsProcessCh), txsNotify(t, p)))
    /\ UNCHANGED <<chainVars, pendingProcessCh, quitReqBlockCh, caughtUp, live,
                   workerVars, timerVars, obsVars, txLast>>

\* A cancellation notice for peer p is sent on quitReqBlockCh.  A sender that
\* finds the buffer full waits, and is seen here only once it sends.
QuitSignal(p) ==
    /\ Len(quitReqBlockCh.buf) < Cap(maxQuitReq)
    /\ quitReqBlockCh' = [quitReqBlockCh EXCEPT !.buf = Append(@, p)]
    /\ UNCHANGED <<chainVars, pendingProcessCh, txsProcessCh, lost, caughtUp, live,
                   workerVars, timerVars, obsVars, txLast>>

\* ------------------------------------------------------------------- clock

\* The ticker after d seconds: [left, fired].
TickerAfter(left, d) ==
    IF d < left
    THEN [left |-> left - d, fired |-> FALSE]
    ELSE [left |-> requestRetryTicker - ((d - left) % requestRetryTicker),
          fired |-> TRUE]

\* Sessions whose request is waiting and whose deadline is still ahead.
Waiting == {s \in Sessions : wpc[s] = "wait" /\ syncWait[s] > 0}

\* TickStep seconds pass.  The clock of a request is followed up to the
\* firing of its deadline timer.
Tick ==
    /\ Waiting # {}
    /\ syncWait' = [s \in Sessions |->
           IF s \in Waiting THEN Max(0, syncWait[s] - TickStep) ELSE syncWait[s]]
    /\ retryTicker' = [s \in Sessions |->
           IF s \in Waiting
           THEN TickerAfter(retryTicker[s], TickStep).left
           ELSE retryTicker[s]]
    /\ retryC' = [s \in Sessions |->
           IF s \in Waiting
           THEN retryC[s] \/ TickerAfter(retryTicker[s], TickStep).fired
           ELSE retryC[s]]
    /\ elapsed' = [s \in Sessions |->
           IF s \in Waiting THEN elapsed[s] + TickStep ELSE elapsed[s]]
    /\ UNCHANGED <<chainVars, chanVars, caughtUp, live, workerVars, obsVars, txLast>>

\* ------------------------------------------------------------ BlockRequest

\* Faulty variants of ResponseMatches: the height is not compared; the
\* origin peer is not compared.
ResponseMatchesPeerOnly(r, p, h) == r.peerID = p
ResponseMatchesHeightOnly(r, p, h) == r.block.Height = h

\* strings.Compare(pendingResponse.peerID, peerID) == 0 and
\* block.Height == height: the response BlockRequest returns.
ResponseMatches(r, p, h) == r.peerID = p /\ r.block.Height = h

\* Faulty variant of QuitMatches: any notice ends the request.
QuitMatchesAny(q, p) == TRUE

\* strings.Compare(*peerid, peerID) == 0: the notice that ends the request.
QuitMatches(q, p) == q = p

\* The arguments of bk.blockRequest(peerID, height) in session s.
RequestArgs(s) == <<peerID[s], num[s]>>

\* Faulty variant of NewSyncWait: the deadline is one retry interval.
NewSyncWaitShort == requestRetryTicker

\* time.NewTimer(syncTimeout) and time.Tick(requestRetryTicker).
NewSyncWait == syncTimeout
NewRetryTicker == requestRetryTicker

\* BlockRequest returns (b, e) to BlockRequestWorker in session s; its
\* timers are not read again.
Return(s, b, e) ==
    /\ block' = [block EXCEPT ![s] = b]
    /\ err' = [err EXCEPT ![s] = e]
    /\ wpc' = [wpc EXCEPT ![s] = "fetched"]
    /\ retryTicker' = [retryTicker EXCEPT ![s] = 0]
    /\ retryC' = [retryC EXCEPT ![s] = FALSE]
    /\ syncWait' = [syncWait EXCEPT ![s] = 0]
    /\ UNCHANGED <<peerID, maxPeerHeight, num, isOrphan, ret, elapsed>>

\* The select loop goes round again (continue, or the end of a case).
KeepWaiting(s) ==
    /\ UNCHANGED <<workerVars, retryTicker, syncWait, elapsed>>

\* Faulty variant of LoopCondition: num < maxPeerHeight.
LoopConditionStrict(n, m) == ULt(n, m)

\* for num <= maxPeerHeight
LoopCondition(n, m) == ULe(n, m)

\* block, err := bk.BlockRequest(peerID, num): the first dispatch; on
\* success the two timers start.
BlockRequest(s) ==
    /\ wpc[s] = "loop"
    /\ LoopCondition(num[s], maxPeerHeight[s])
    /\ lastReq' = [lastReq EXCEPT ![s] = RequestArgs(s)]
    /\ nReq' = [nReq EXCEPT ![s] = 1]
    /\ processed' = [processed EXCEPT ![s] = FALSE]
    /\ skipped' = [skipped EXCEPT ![s] = FALSE]
    /\ \E e \in RequestResults :
          IF e # nil
          THEN /\ Return(s, NilBlock, errReqBlock)
               /\ ideal' = [ideal EXCEPT ![s] = FALSE]
          ELSE /\ UNCHANGED ideal
               /\ retryTicker' = [retryTicker EXCEPT ![s] = NewRetryTicker]
               /\ retryC' = [retryC EXCEPT ![s] = FALSE]
               /\ syncWait' = [syncWait EXCEPT ![s] = NewSyncWait]
               /\ wpc' = [wpc EXCEPT ![s] = "wait"]
               /\ block' = [block EXCEPT ![s] = NilBlock]
               /\ err' = [err EXCEPT ![s] = nil]
               /\ UNCHANGED <<peerID, maxPeerHeight, num, isOrphan, ret, elapsed>>
    /\ UNCHANGED <<chainVars, chanVars, caughtUp, live, nDrop, nScam, txLast>>

\* case pendingResponse := <-bk.pendingProcessCh
RecvResponse(s) ==
    /\ wpc[s] = "wait"
    /\ ChanReady(pendingProcessCh)
    /\ pendingProcessCh' = ChanRecv(pendingProcessCh)
    /\ IF ResponseMatches(ChanHead(pendingProcessCh), peerID[s], num[s])
       THEN /\ Return(s, ChanHead(pendingProcessCh).block, nil)
            /\ UNCHANGED skipped
       ELSE /\ KeepWaiting(s)
            /\ skipped' = [skipped EXCEPT ![s] = TRUE]
            /\ UNCHANGED retryC
    /\ UNCHANGED <<chainVars, txsProcessCh, quitReqBlockCh, lost, caughtUp, live,
                   lastReq, nReq, processed, nDrop, nScam, ideal, txLast>>

\* Faulty variant of RetryTick: the request is re-issued once only.
RetryTickOnce(s) ==
    /\ wpc[s] = "wait"
    /\ retryC[s]
    /\ nReq[s] < 2
    /\ lastReq' = [lastReq EXCEPT ![s] = RequestArgs(s)]
    /\ nReq' = [nReq EXCEPT ![s] = @ + 1]
    /\ \E e \in RequestResults :
          IF e # nil
          THEN /\ Return(s, NilBlock, errReqBlock)
               /\ ideal' = [ideal EXCEPT ![s] = FALSE]
          ELSE /\ KeepWaiting(s)
               /\ retryC' = [retryC EXCEPT ![s] = FALSE]
               /\ UNCHANGED ideal
    /\ UNCHANGED <<chainVars, chanVars, caughtUp, live, processed, nDrop,
                   nScam, skipped, txLast>>

\* case <-retryTicker
RetryTick(s) ==
    /\ wpc[s] = "wait"
    /\ retryC[s]
    /\ lastReq' = [lastReq EXCEPT ![s] = RequestArgs(s)]
    /\ nReq' = [nReq EXCEPT ![s] = @ + 1]
    /\ \E e \in RequestResults :
          IF e # nil
          THEN /\ Return(s, NilBlock, errReqBlock)
               /\ ideal' = [ideal EXCEPT ![s] = FALSE]
          ELSE /\ KeepWaiting(s)
               /\ retryC' = [retryC EXCEPT ![s] = FALSE]
               /\ UNCHANGED ideal
    /\ UNCHANGED <<chainVars, chanVars, caughtUp, live, processed, nDrop,
                   nScam, skipped, txLast>>

\* Faulty variant of SyncTimeout: the fired deadline does not end the wait.
SyncTimeoutIgnored(s) ==
    /\ wpc[s] = "wait"
    /\ syncWait[s] = 0
    /\ KeepWaiting(s)
    /\ UNCHANGED <<retryC, ideal>>
    /\ UNCHANGED <<chainVars, chanVars, caughtUp, live, lastReq, nReq,
                   processed, nDrop, nScam, skipped, txLast>>

\* case <-syncWait.C
SyncTimeout(s) ==
    /\ wpc[s] = "wait"
    /\ syncWait[s] = 0
    /\ Return(s, NilBlock, errGetBlockTimeout)
    /\ ideal' = [ideal EXCEPT ![s] = FALSE]
    /\ UNCHANGED <<chainVars, chanVars, caughtUp, live, lastReq, nReq,
                   processed, nDrop, nScam, skipped, txLast>>

\* case peerid := <-bk.quitReqBlockCh
RecvQuit(s) ==
    /\ wpc[s] = "wait"
    /\ ChanReady(quitReqBlockCh)
    /\ quitReqBlockCh' = ChanRecv(quitReqBlockCh)
    /\ IF QuitMatches(ChanHead(quitReqBlockCh), peerID[s])
       THEN /\ Return(s, NilBlock, errPeerDropped)
            /\ ideal' = [ideal EXCEPT ![s] = FALSE]
       ELSE /\ KeepWaiting(s)
            /\ UNCHANGED <<retryC, ideal>>
    /\ UNCHANGED <<chainVars, pendingProcessCh, txsProcessCh, lost, caughtUp, live,
                   lastReq, nReq, processed, nDrop, nScam, skipped, txLast>>

\* ------------------------------------------------------ BlockRequestWorker

\* chainHeight := bk.chain.Height(); num := chainHeight + 1; isOrphan := false
BlockRequestWorker(s, p, m) ==
    /\ s \in live
    /\ wpc[s] = "idle"
    /\ peerID' = [peerID EXCEPT ![s] = p]
    /\ maxPeerHeight' = [maxPeerHeight EXCEPT ![s] = m]
    /\ num' = [num EXCEPT ![s] = UInc(chainHeight)]
    /\ isOrphan' = [isOrphan EXCEPT ![s] = FALSE]
    /\ wpc' = [wpc EXCEPT ![s] = "loop"]
    /\ ideal' = [ideal EXCEPT ![s] = ULe(chainHeight, m)]
    /\ UNCHANGED <<chainVars, chanVars, caughtUp, live, block, err, ret,
                   timerVars, lastReq, nReq, processed, nDrop, nScam, skipped,
                   txLast>>

\* The loop condition fails: return nil.
WorkerReturnNil(s) ==
    /\ wpc[s] = "loop"
    /\ ~LoopCondition(num[s], maxPeerHeight[s])
    /\ ret' = [ret EXCEPT ![s] = nil]
    /\ wpc' = [wpc EXCEPT ![s] = "done"]
    /\ UNCHANGED <<chainVars, chanVars, caughtUp, live, peerID, maxPeerHeight,
                   num, block, err, isOrphan, timerVars, obsVars, txLast>>

\* errors.Root(err) == errPeerDropped || ... == errGetBlockTimeout ||
\* ... == errReqBlock
IsCommError(e) == e \in {errPeerDropped, errGetBlockTimeout, errReqBlock}

\* Faulty variant of WorkerDropPeer: the peer is not dropped.
WorkerDropPeerSkipped(s) ==
    /\ wpc[s] = "fetched"
    /\ err[s] \in {errPeerDropped, errGetBlockTimeout, errReqBlock}
    /\ ret' = [ret EXCEPT ![s] = errCommAbnorm]
    /\ wpc' = [wpc EXCEPT ![s] = "done"]
    /\ elapsed' = [elapsed EXCEPT ![s] = 0]
    /\ nReq' = [nReq EXCEPT ![s] = 0]
    /\ skipped' = [skipped EXCEPT ![s] = FALSE]
    /\ UNCHANGED <<chainVars, chanVars, caughtUp, live, peerID, maxPeerHeight,
                   num, block, err, isOrphan, retryTicker, retryC, syncWait,
                   lastReq, processed, nDrop, nScam, ideal, txLast>>

\* Faulty variant of WorkerDropPeer: the error of BlockRequest is returned.
WorkerDropPeerReturnsInner(s) ==
    /\ wpc[s] = "fetched"
    /\ IsCommError(err[s])
    /\ nDrop' = [nDrop EXCEPT ![s] = @ + 1]
    /\ ret' = [ret EXCEPT ![s] = err[s]]
    /\ wpc' = [wpc EXCEPT ![s] = "done"]
    /\ elapsed' = [elapsed EXCEPT ![s] = 0]
    /\ nReq' = [nReq EXCEPT ![s] = 0]
    /\ skipped' = [skipped EXCEPT ![s] = FALSE]
    /\ UNCHANGED <<chainVars, chanVars, caughtUp, live, peerID, maxPeerHeight,
                   num, block, err, isOrphan, retryTicker, retryC, syncWait,
                   lastReq, processed, nScam, ideal, txLast>>

\* bk.peers.DropPeer(peerID); return errCommAbnorm
WorkerDropPeer(s) ==
    /\ wpc[s] = "fetched"
    /\ IsCommError(err[s])
    /\ nDrop' = [nDrop EXCEPT ![s] = @ + 1]
    /\ ret' = [ret EXCEPT ![s] = errCommAbnorm]
    /\ wpc' = [wpc EXCEPT ![s] = "done"]
    /\ elapsed' = [elapsed EXCEPT ![s] = 0]
    /\ nReq' = [nReq EXCEPT ![s] = 0]
    /\ skipped' = [skipped EXCEPT ![s] = FALSE]
    /\ UNCHANGED <<chainVars, chanVars, caughtUp, live, peerID, maxPeerHeight,
                   num, block, err, isOrphan, retryTicker, retryC, syncWait,
                   lastReq, processed, nScam, ideal, txLast>>

\* isOrphan, err = bk.chain.ProcessBlock(block)
WorkerProcessBlock(s) ==
    /\ wpc[s] = "fetched"
    /\ ~IsCommError(err[s])
    /\ \E r \in ProcessResults :
          /\ isOrphan' = [isOrphan EXCEPT ![s] = r[1]]
          /\ err' = [err EXCEPT ![s] = r[2]]
          /\ chainHeight' = HeightAfterProcess(chainHeight, block[s], r[1], r[2])
          /\ ideal' = [t \in Sessions |->
                 IF t = s
                 THEN ideal[s] /\ ~r[1] /\ r[2] = nil
                               /\ block[s].Height = chainHeight + 1
                 ELSE ideal[t] /\ chainHeight' = chainHeight]
    /\ processed' = [processed EXCEPT ![s] = TRUE]
    /\ wpc' = [wpc EXCEPT ![s] = "processed"]
    /\ elapsed' = [elapsed EXCEPT ![s] = 0]
    /\ nReq' = [nReq EXCEPT ![s] = 0]
    /\ skipped' = [skipped EXCEPT ![s] = FALSE]
    /\ UNCHANGED <<bestPeerHeight, chanVars, caughtUp, live, peerID,
                   maxPeerHeight, num, block, ret, retryTicker, retryC,
                   syncWait, lastReq, nDrop, nScam, txLast>>

\* Faulty variant of WorkerScamPeer: the peer is not reported.
WorkerScamPeerUnreported(s) ==
    /\ wpc[s] = "processed"
    /\ err[s] # nil
    /\ ret' = [ret EXCEPT ![s] = errScamPeer]
    /\ wpc' = [wpc EXCEPT ![s] = "done"]
    /\ UNCHANGED <<chainVars, chanVars, caughtUp, live, peerID, maxPeerHeight,
                   num, block, err, isOrphan, timerVars, obsVars, txLast>>

\* if err != nil { bk.sw.AddScamPeer(...); return errScamPeer }
WorkerScamPeer(s) ==
    /\ wpc[s] = "processed"
    /\ err[s] # nil
    /\ nScam' = [nScam EXCEPT ![s] = @ + 1]
    /\ ret' = [ret EXCEPT ![s] = errScamPeer]
    /\ wpc' = [wpc EXCEPT ![s] = "done"]
    /\ UNCHANGED <<chainVars, chanVars, caughtUp, live, peerID, maxPeerHeight,
                   num, block, err, isOrphan, timerVars, lastReq, nReq,
                   processed, nDrop, skipped, ideal, txLast>>

\* if isOrphan { num--; continue }
WorkerOrphan(s) ==
    /\ wpc[s] = "processed"
    /\ err[s] = nil
    /\ isOrphan[s]
    /\ num' = [num EXCEPT ![s] = UDec(@)]
    /\ wpc' = [wpc EXCEPT ![s] = "loop"]
    /\ UNCHANGED <<chainVars, chanVars, caughtUp, live, peerID, maxPeerHeight,
                   block, err, isOrphan, ret, timerVars, obsVars, txLast>>

\* Faulty variant of WorkerNext: num++ in place of the height read again.
WorkerNextIncrement(s) ==
    /\ wpc[s] = "processed"
    /\ err[s] = nil
    /\ ~isOrphan[s]
    /\ num' = [num EXCEPT ![s] = UInc(@)]
    /\ wpc' = [wpc EXCEPT ![s] = "loop"]
    /\ UNCHANGED <<chainVars, chanVars, caughtUp, live, peerID, maxPeerHeight,
                   block, err, isOrphan, ret, timerVars, obsVars, txLast>>

\* num = bk.chain.Height() + 1
WorkerNext(s) ==
    /\ wpc[s] = "processed"
    /\ err[s] = nil
    /\ ~isOrphan[s]
    /\ num' = [num EXCEPT ![s] = UInc(chainHeight)]
    /\ wpc' = [wpc EXCEPT ![s] = "loop"]
    /\ UNCHANGED <<chainVars, chanVars, caughtUp, live, peerID, maxPeerHeight,
                   block, err, isOrphan, ret, timerVars, obsVars, txLast>>

\* -------------------------------------------------------- txsProcessWorker

\* The results chain.ValidateTx(tx) may give: (isOrphan, err).
ValidateResults == BOOLEAN \X {nil, errOther}

\* Faulty variant of IsScamTx: err != nil.
IsScamTxAnyError(o, e) == e # nil

\* err != nil && isOrphan == false
IsScamTx(o, e) == e # nil /\ o = FALSE

\* Faulty variant of txsProcessWorker: the loop ends after a transaction
\* whose validation failed.
txsProcessWorkerStopsOnFailure ==
    /\ IF txLast = <<>> THEN TRUE ELSE ~IsScamTx(txLast.isOrphan, txLast.err)
    /\ ChanReady(txsProcessCh)
    /\ txsProcessCh' = ChanRecv(txsProcessCh)
    /\ \E r \in ValidateResults :
          txLast' = [peerID |-> ChanHead(txsProcessCh).peerID,
                     tx |-> ChanHead(txsProcessCh).tx,
                     isOrphan |-> r[1],
                     err |-> r[2],
                     marked |-> {<<ChanHead(txsProcessCh).peerID,
                                   ChanHead(txsProcessCh).tx>>},
                     scam |-> IF IsScamTx(r[1], r[2])
                              THEN {ChanHead(txsProcessCh).peerID}
                              ELSE {}]
    /\ UNCHANGED <<chainVars, pendingProcessCh, quitReqBlockCh, lost, caughtUp, live,
                   workerVars, timerVars, obsVars>>

\* One round of for txsResponse := range bk.txsProcessCh: MarkTransaction,
\* ValidateTx and, for a scam transaction, AddScamPeer.
txsProcessWorker ==
    /\ ChanReady(txsProcessCh)
    /\ txsProcessCh' = ChanRecv(txsProcessCh)
    /\ \E r \in ValidateResults :
          txLast' = [peerID |-> ChanHead(txsProcessCh).peerID,
                     tx |-> ChanHead(txsProcessCh).tx,
                     isOrphan |-> r[1],
                     err |-> r[2],
                     marked |-> {<<ChanHead(txsProcessCh).peerID,
                                   ChanHead(txsProcessCh).tx>>},
                     scam |-> IF IsScamTx(r[1], r[2])
                              THEN {ChanHead(txsProcessCh).peerID}
                              ELSE {}]
    /\ UNCHANGED <<chainVars, pendingProcessCh, quitReqBlockCh, lost, caughtUp, live,
                   workerVars, timerVars, obsVars>>

\* -------------------------------------------------------------- IsCaughtUp

\* return bk.chain.Height() < height
IsCaughtUpResult(local, best) == ULt(local, best)

\* func (bk *blockKeeper) IsCaughtUp() bool
IsCaughtUp ==
    /\ caughtUp' = [local |-> chainHeight,
                    best |-> bestPeerHeight,
                    ret |-> IsCaughtUpResult(chainHeight, bestPeerHeight)]
    /\ UNCHANGED <<chainVars, chanVars, live, workerVars, timerVars, obsVars, txLast>>

\* ------------------------------------------------------------ specification

Next ==
    \/ \E g \in Callers, b \in Blocks, p \in Peers : AddBlock(g, b, p)
    \/ \E p \in Peers : QuitSignal(p)
    \/ Gossip
    \/ Tick
    \/ \E s \in Sessions, p \in Peers, m \in Heights : BlockRequestWorker(s, p, m)
    \/ \E s \in Sessions : BlockRequest(s)
    \/ \E s \in Sessions : RecvResponse(s)
    \/ \E s \in Sessions : RetryTick(s)
    \/ \E s \in Sessions : SyncTimeout(s)
    \/ \E s \in Sessions : RecvQuit(s)
    \/ \E s \in Sessions : WorkerReturnNil(s)
    \/ \E s \in Sessions : WorkerDropPeer(s)
    \/ \E s \in Sessions : WorkerProcessBlock(s)
    \/ \E s \in Sessions : WorkerScamPeer(s)
    \/ \E s \in Sessions : WorkerOrphan(s)
    \/ \E s \in Sessions : WorkerNext(s)

Spec == Init /\ [][Next]_vars

\* The transaction pipeline: AddTx and txsProcessWorker.
NextTx ==
    \/ \E g \in Callers, t \in TxIDs, p \in Peers : AddTx(g, t, p)
    \/ txsProcessWorker

InitTx ==
    /\ InitKeeper
    /\ chainHeight = 0
    /\ bestPeerHeight = 0
    /\ live = {}

SpecTx == InitTx /\ [][NextTx]_vars

\* IsCaughtUp applied to every local height and best peer height.
InitStatus ==
    /\ InitKeeper
    /\ chainHeight \in 0..MaxStatusHeight
    /\ bestPeerHeight \in 0..MaxStatusHeight
    /\ live = {}

SpecStatus == InitStatus /\ [][IsCaughtUp]_vars

\* A request whose deadline is not reached, whose peer is not dropped and
\* whose dispatch is not retried: only responses arrive.  Every response the
\* wait loop can take is taken in the end.
NextResponses ==
    \/ \E g \in Callers, b \in Blocks, p \in Peers : AddBlock(g, b, p)
    \/ \E s \in Sessions, p \in Peers, m \in Heights : BlockRequestWorker(s, p, m)
    \/ \E s \in Sessions : BlockRequest(s)
    \/ \E s \in Sessions : RecvResponse(s)

SpecResponses ==
    /\ Init
    /\ [][NextResponses]_vars
    /\ \A s \in Sessions : WF_vars(RecvResponse(s))

\* The ingress: the operations that send to or receive from
\* pendingProcessCh and txsProcessCh, and the calls that lead a session to
\* its receive.
NextIngress ==
    \/ \E g \in Callers, b \in Blocks, p \in Peers : AddBlock(g, b, p)
    \/ \E g \in Callers, t \in TxIDs, p \in Peers : AddTx(g, t, p)
    \/ txsProcessWorker
    \/ \E s \in Sessions, p \in Peers, m \in Heights : BlockRequestWorker(s, p, m)
    \/ \E s \in Sessions : BlockRequest(s)
    \/ \E s \in Sessions : RecvResponse(s)

SpecIngress == Init /\ [][NextIngress]_vars

\* --------------------------------------------------------------------- C1

\* C1: IsCaughtUp() returns true exactly when the local height is not behind
\* the best peer's height: ret = (localHeight >= bestPeerHeight).
C1_TrueIffNotBehind ==
    caughtUp # <<>> => (caughtUp.ret <=> ULe(caughtUp.best, caughtUp.local))

\* --------------------------------------------------------------------- C2

\* A response for the request of session s is in pendingProcessCh.
MatchQueued(s) ==
    \E i \in 1..Len(Contents(pendingProcessCh)) :
        /\ Contents(pendingProcessCh)[i].peerID = peerID[s]
        /\ Contents(pendingProcessCh)[i].block.Height = num[s]

\* BlockRequest of session s has returned the block it asked for.
GotRequested(s) ==
    /\ wpc[s] = "fetched"
    /\ err[s] = nil
    /\ block[s] = Block(num[s])

\* C2: whatever the place of the matching response among the responses
\* AddBlock enqueued, a waiting BlockRequest(peerID, height) discards the
\* responses before it and returns its block.
C2_MatchReturned ==
    \A s \in Sessions :
        (wpc[s] = "wait" /\ MatchQueued(s)) ~> GotRequested(s)

\* The request returned its block after discarding another response.
C2_Witness ==
    GotRequested(1) /\ skipped[1]

\* --------------------------------------------------------------------- C3

\* A response left pendingProcessCh in this step.
ResponseTaken ==
    /\ ChanReady(pendingProcessCh)
    /\ Len(Contents(pendingProcessCh')) < Len(Contents(pendingProcessCh))

C3_Step(s) ==
    /\ (wpc[s] = "wait" /\ wpc'[s] = "fetched" /\ err'[s] = nil) =>
          /\ ResponseTaken
          /\ ChanHead(pendingProcessCh).peerID = peerID[s]
          /\ ChanHead(pendingProcessCh).block.Height = num[s]
          /\ block'[s] = ChanHead(pendingProcessCh).block
    /\ ( /\ wpc[s] = "wait"
         /\ ResponseTaken
         /\ \/ ChanHead(pendingProcessCh).peerID # peerID[s]
            \/ ChanHead(pendingProcessCh).block.Height # num[s] ) =>
          /\ wpc'[s] = "wait"
          /\ err'[s] = err[s]
          /\ block'[s] = block[s]
          /\ ret'[s] = ret[s]

\* C3: BlockRequest(peerID, height) returns a block with a nil error only by
\* taking from pendingProcessCh a response whose origin is peerID and whose
\* block has the height asked for; a response of another origin or height
\* is taken and the wait goes on, with no result and no error.
C3_NoFalseSuccess == [][\A s \in Sessions : C3_Step(s)]_vars

\* A response was discarded and the request is still waiting.
C3_Witness ==
    wpc[1] = "wait" /\ skipped[1] /\ ~MatchQueued(1)

\* --------------------------------------------------------------------- C4

\* C4: BlockRequest fails with errGetBlockTimeout no earlier than syncTimeout
\* after the first dispatch, and while it waits the time left on the
\* deadline is syncTimeout less the time since the first dispatch: no
\* response, retry or cancellation notice resets or extends it.
C4_TimeoutAtDeadline ==
    \A s \in Sessions :
        /\ wpc[s] = "wait" =>
              syncWait[s] = Max(0, syncTimeout - elapsed[s])
        /\ (wpc[s] = "fetched" /\ err[s] = errGetBlockTimeout) =>
              /\ elapsed[s] >= syncTimeout
              /\ block[s] = NilBlock

\* The request timed out after retries and discarded responses.
C4_Witness ==
    /\ wpc[1] = "fetched"
    /\ err[1] = errGetBlockTimeout
    /\ skipped[1]
    /\ nReq[1] > 1

\* --------------------------------------------------------------------- C5

\* The one running session took a notice from quitReqBlockCh in this step.
QuitTaken(s) ==
    /\ wpc[s] = "wait"
    /\ ChanReady(quitReqBlockCh)
    /\ Len(quitReqBlockCh'.buf) < Len(quitReqBlockCh.buf)

C5_Step(s) ==
    /\ (QuitTaken(s) /\ ChanHead(quitReqBlockCh) = peerID[s]) =>
          /\ wpc'[s] = "fetched"
          /\ err'[s] = errPeerDropped
          /\ block'[s] = NilBlock
    /\ (QuitTaken(s) /\ ChanHead(quitReqBlockCh) # peerID[s]) =>
          UNCHANGED <<chainVars, pendingProcessCh, txsProcessCh, lost,
                      workerVars, timerVars, obsVars>>
    /\ (wpc[s] = "wait" /\ wpc'[s] = "fetched" /\ err'[s] = errPeerDropped) =>
          /\ QuitTaken(s)
          /\ ChanHead(quitReqBlockCh) = peerID[s]

\* C5: a notice for peerID taken by the waiting BlockRequest(peerID, height)
\* ends it with errPeerDropped, and nothing else does; a notice for another
\* peer leaves the request, its timers and the pending responses as they
\* were, so the request goes on as if the notice had not been sent.
C5_QuitOnlyForPeer == [][\A s \in live : C5_Step(s)]_vars

\* The request was cancelled after waiting for a while.
C5_Witness ==
    /\ wpc[1] = "fetched"
    /\ err[1] = errPeerDropped
    /\ elapsed[1] > 0

\* --------------------------------------------------------------------- C6

\* C6: in a call BlockRequestWorker(peerID, m) started at a local height
\* h <= m, with every request dispatched and answered by its block, every
\* block put on the chain, and no other source of blocks, the cursor is the
\* local height plus one at every fetch, so each round advances it by one,
\* and the call returns nil with the local height at m.
C6_CatchUpCompletes ==
    \A s \in Sessions :
        ideal[s] =>
            /\ wpc[s] \in {"loop", "wait", "fetched"} =>
                  /\ num[s] = chainHeight + 1
                  /\ chainHeight <= maxPeerHeight[s]
            /\ wpc[s] = "processed" => num[s] = chainHeight
            /\ wpc[s] = "done" =>
                  /\ ret[s] = nil
                  /\ chainHeight = maxPeerHeight[s]

\* An undisturbed call fetched up to the highest block and returned.
C6_Witness ==
    /\ wpc[1] = "done"
    /\ ideal[1]
    /\ lastReq[1] # <<>>
    /\ maxPeerHeight[1] = MaxHeight

\* --------------------------------------------------------------------- C7

CommErrors == {errReqBlock, errGetBlockTimeout, errPeerDropped}

C7_State(s) ==
    /\ err[s] \in CommErrors => (wpc[s] \in {"fetched", "done"} /\ ~processed[s])
    /\ (wpc[s] = "done" /\ err[s] \in CommErrors) =>
          (ret[s] = errCommAbnorm /\ nDrop[s] = 1)

C7_Step(s) ==
    (wpc[s] = "fetched" /\ err[s] \in CommErrors /\ wpc'[s] # "fetched") =>
        /\ wpc'[s] = "done"
        /\ ret'[s] = errCommAbnorm
        /\ nDrop'[s] = nDrop[s] + 1
        /\ chainHeight' = chainHeight
        /\ ~processed'[s]

\* C7: after a fetch that failed with errReqBlock, errGetBlockTimeout or
\* errPeerDropped the driver does nothing but call DropPeer(peerID) once and
\* return errCommAbnorm: ProcessBlock is not called in that round and the
\* step leaves the chain height as it was.
C7_CommFailureDropsPeer ==
    /\ [](\A s \in Sessions : C7_State(s))
    /\ [][\A s \in Sessions : C7_Step(s)]_vars

\* The driver returned errCommAbnorm after a timed-out fetch.
C7_Witness ==
    /\ wpc[1] = "done"
    /\ ret[1] = errCommAbnorm
    /\ err[1] = errGetBlockTimeout
    /\ nDrop[1] = 1

\* --------------------------------------------------------------------- C8

\* C8: when ProcessBlock failed on a fetched block that is not an orphan,
\* the driver goes nowhere but to AddScamPeer and the return of errScamPeer;
\* and a call that returned errScamPeer has called AddScamPeer before.
C8_ScamPeerReported ==
    \A s \in Sessions :
        /\ (processed[s] /\ err[s] # nil /\ ~isOrphan[s]) =>
              /\ wpc[s] \in {"processed", "done"}
              /\ wpc[s] = "done" => (ret[s] = errScamPeer /\ nScam[s] = 1)
        /\ (wpc[s] = "done" /\ ret[s] = errScamPeer) =>
              (nScam[s] = 1 /\ processed[s] /\ err[s] # nil)

\* The driver returned errScamPeer for a rejected block that is no orphan.
C8_Witness ==
    /\ wpc[1] = "done"
    /\ ret[1] = errScamPeer
    /\ ~isOrphan[1]
    /\ nScam[1] = 1

\* --------------------------------------------------------------------- C9

\* C9: txsProcessWorker calls AddScamPeer for the origin peer of a
\* notification exactly when ValidateTx failed and did not classify the
\* transaction as an orphan: not for an orphan, not after a success.
C9_TxScamUnlessOrphan ==
    txLast # <<>> =>
        /\ txLast.isOrphan => txLast.scam = {}
        /\ (txLast.err # nil /\ ~txLast.isOrphan) => txLast.scam = {txLast.peerID}
        /\ txLast.err = nil => txLast.scam = {}

\* An orphan transaction whose validation gave an error was not penalized.
C9_Witness ==
    /\ txLast # <<>>
    /\ txLast.isOrphan
    /\ txLast.err # nil
    /\ txLast.scam = {}

\* -------------------------------------------------------------------- C10

\* The buffer of ch holds at most cap values, and a sender is parked on it
\* only while it is full.
Bounded(ch, cap) ==
    /\ Len(ch.buf) <= cap
    /\ Len(ch.sendq) > 0 => Len(ch.buf) = cap

\* One step of a channel: nothing, one value added behind all the others,
\* or the oldest value removed; what it held stays, in order.  A parked
\* sender stays parked, with its value, unless the step removed a value,
\* and its own value is then in the buffer.
ChanStep(old, new) ==
    /\ \/ Contents(new) = Contents(old)
       \/ /\ Len(Contents(new)) = Len(Contents(old)) + 1
          /\ SubSeq(Contents(new), 1, Len(Contents(old))) = Contents(old)
       \/ /\ Len(Contents(old)) > 0
          /\ Contents(new) = Tail(Contents(old))
    /\ \A g \in Callers :
          (Parked(old, g) /\ ~Parked(new, g)) =>
              /\ Contents(new) = Tail(Contents(old))
              /\ Len(new.buf) = Len(old.buf)
    /\ \A g \in Callers :
          (Parked(old, g) /\ Parked(new, g)) =>
              \E i \in 1..Len(old.sendq), j \in 1..Len(new.sendq) :
                  old.sendq[i].g = g /\ new.sendq[j] = old.sendq[i]

\* C10: pendingProcessCh and txsProcessCh never buffer more than their
\* capacity; AddBlock and AddTx on a full buffer park the caller with its
\* value until a receive frees a slot; every send ends with its value the
\* newest of the values held, buffered or parked, and drops or reorders
\* none of them.
C10_Backpressure ==
    /\ [](/\ ~lost
          /\ Bounded(pendingProcessCh, Cap(maxBlocksPending))
          /\ Bounded(txsProcessCh, Cap(maxtxsPending))
          /\ Cap(maxBlocksPending) <= maxBlocksPending
          /\ Cap(maxtxsPending) <= maxtxsPending)
    /\ [][/\ ChanStep(pendingProcessCh, pendingProcessCh')
          /\ ChanStep(txsProcessCh, txsProcessCh')]_vars

\* A caller of AddBlock is parked on the full pendingProcessCh while the
\* transaction queue is full as well.
C10_Witness ==
    /\ \E g \in Callers : Parked(pendingProcessCh, g)
    /\ Len(pendingProcessCh.buf) = Cap(maxBlocksPending)
    /\ Len(txsProcessCh.buf) = Cap(maxtxsPending)

\* -------------------------------------------------------------------- C11

\* The transaction pipeline with the goroutine of txsProcessWorker scheduled
\* whenever it can receive.
SpecTxFair == InitTx /\ [][NextTx]_vars /\ WF_vars(txsProcessWorker)

\* The notification (t, p) is in txsProcessCh, buffered or with its sender.
TxQueued(t, p) ==
    \E i \in 1..Len(Contents(txsProcessCh)) :
        Contents(txsProcessCh)[i] = txsNotify(t, p)

\* txsProcessWorker has marked and validated the notification (t, p).
TxHandled(t, p) ==
    /\ txLast # <<>>
    /\ txLast.tx = t
    /\ txLast.peerID = p
    /\ txLast.marked = {<<p, t>>}
    /\ <<txLast.isOrphan, txLast.err>> \in ValidateResults

\* C11: whatever the outcome of the transactions before it (success, orphan
\* or failed validation), every notification AddTx put in txsProcessCh is
\* taken, marked and validated by txsProcessWorker: the loop has no exit
\* but the end of the range over the channel.
C11_EveryTxHandled ==
    \A t \in TxIDs, p \in Peers : TxQueued(t, p) ~> TxHandled(t, p)

\* The last transaction failed validation and others are queued behind it.
C11_Witness ==
    /\ txLast # <<>>
    /\ IsScamTx(txLast.isOrphan, txLast.err)
    /\ TxQueued("t2", "B")
    /\ \E g \in Callers : Parked(txsProcessCh, g)

\* -------------------------------------------------------------------- C12

\* Block b is on the local chain already: a response that carries it is a
\* second submission of a block the chain has.
OnChain(b) == b # NilBlock /\ b.Height <= chainHeight

C12_Step(s) ==
    \* the second submission is taken by a waiting request: it is discarded
    \* and the wait goes on, or it is the block asked for and is returned
    /\ (wpc[s] = "wait" /\ ResponseTaken /\ OnChain(ChanHead(pendingProcessCh).block)) =>
          /\ num'[s] = num[s]
          /\ ret'[s] = ret[s]
          /\ nDrop'[s] = nDrop[s]
          /\ nScam'[s] = nScam[s]
          /\ chainHeight' = chainHeight
          /\ \/ wpc'[s] = "wait" /\ block'[s] = block[s] /\ err'[s] = err[s]
             \/ /\ wpc'[s] = "fetched"
                /\ err'[s] = nil
                /\ block'[s] = ChanHead(pendingProcessCh).block
                /\ block'[s].Height = num[s]
    \* ProcessBlock takes it with no error: the chain is as it was
    /\ ( /\ wpc[s] = "fetched"
         /\ wpc'[s] = "processed"
         /\ OnChain(block[s])
         /\ err'[s] = nil ) =>
          /\ chainHeight' = chainHeight
          /\ num'[s] = num[s]
    \* the cursor then moves by one of the two rules and the call goes on
    /\ ( /\ wpc[s] = "processed"
         /\ OnChain(block[s])
         /\ err[s] = nil
         /\ wpc'[s] # "processed" ) =>
          /\ wpc'[s] = "loop"
          /\ ret'[s] = ret[s]
          /\ nDrop'[s] = nDrop[s]
          /\ nScam'[s] = nScam[s]
          /\ num'[s] = IF isOrphan[s] THEN num[s] - 1 ELSE chainHeight + 1

IterationEnds(s) == wpc[s] = "processed" /\ wpc'[s] = "loop"

C13_Step(s) ==
    /\ (IterationEnds(s) /\ err[s] = nil /\ ~isOrphan[s]) =>
          num'[s] = UInc(chainHeight')
    /\ (IterationEnds(s) /\ isOrphan[s]) =>
          /\ UInc(num'[s]) = num[s]
          /\ ULt(num'[s], num[s])

\* C13: at the end of an iteration in which ProcessBlock succeeded on a
\* block that is no orphan the cursor is chain.Height()+1; at the end of an
\* iteration classified as orphan the cursor is one less than it was and
\* strictly smaller as a uint64, whatever its value was.
C13_CursorInvariant == [][\A s \in Sessions : C13_Step(s)]_vars

\* -------------------------------------------------------------------- C14

C14_Step(s) ==
    (wpc[s] = "processed" /\ isOrphan[s] /\ wpc'[s] # "processed") =>
        /\ wpc'[s] = "loop"
        /\ num'[s] = UDec(num[s])
        /\ nScam'[s] = nScam[s]
        /\ nDrop'[s] = nDrop[s]
        /\ ret'[s] = ret[s]

\* C14: after ProcessBlock answered (isOrphan, err) with isOrphan = true,
\* whatever err is, the driver calls neither AddScamPeer nor DropPeer and
\* does not return: it decrements the cursor and goes round the loop.
C14_OrphanNeverFails == [][\A s \in Sessions : C14_Step(s)]_vars

\* -------------------------------------------------------------------- C15

\* C15: when BlockRequestWorker(peerID, maxPeerHeight) has returned nil the
\* local chain height is at least maxPeerHeight.
C15_NilOnlyWhenComplete ==
    \A s \in Sessions :
        (wpc[s] = "done" /\ ret[s] = nil) => ULe(maxPeerHeight[s], chainHeight)

\* -------------------------------------------------------------------- C16

\* Two sessions may run at once, from an empty chain.
InitTwo ==
    /\ InitKeeper
    /\ chainHeight = 0
    /\ bestPeerHeight = 0
    /\ live = Sessions

\* Two concurrent requests, the cancellation notices and the clock.
NextQuit ==
    \/ \E s \in Sessions, p \in Peers : BlockRequestWorker(s, p, MaxHeight)
    \/ \E s \in Sessions : BlockRequest(s)
    \/ \E p \in Peers : QuitSignal(p)
    \/ \E s \in Sessions : RecvQuit(s)
    \/ Tick
    \/ \E s \in Sessions : SyncTimeout(s)

SpecQuit == InitTwo /\ [][NextQuit]_vars

\* A notice left quitReqBlockCh in this step.
NoticeTaken ==
    /\ ChanReady(quitReqBlockCh)
    /\ Len(quitReqBlockCh'.buf) < Len(quitReqBlockCh.buf)

\* Sessions s and t wait at the same time, for different peers.
WaitingApart(s, t) ==
    /\ s # t
    /\ wpc[s] = "wait"
    /\ wpc[t] = "wait"
    /\ peerID[s] # peerID[t]

C16_Step(s, t) ==
    (WaitingApart(s, t) /\ NoticeTaken /\ ChanHead(quitReqBlockCh) = peerID[t]) =>
        /\ wpc'[t] = "fetched"
        /\ err'[t] = errPeerDropped

\* C16: with two sessions waiting for different peers, a notice for the
\* peer of one of them leaves quitReqBlockCh only by ending that session's
\* request with errPeerDropped: the session of the other peer never removes
\* it.
C16_NoticeReachesItsSession == [][\A s, t \in Sessions : C16_Step(s, t)]_vars

\* -------------------------------------------------------------------- C17

\* Two concurrent requests, the responses and the clock.
NextCrosstalk ==
    \/ \E g \in Callers, b \in Blocks, p \in Peers : AddBlock(g, b, p)
    \/ \E s \in Sessions, p \in Peers : BlockRequestWorker(s, p, MaxHeight)
    \/ \E s \in Sessions : BlockRequest(s)
    \/ \E s \in Sessions : RecvResponse(s)
    \/ Tick
    \/ \E s \in Sessions : SyncTimeout(s)

SpecCrosstalk == InitTwo /\ [][NextCrosstalk]_vars

C17_Step(s, t) ==
    ( /\ WaitingApart(s, t)
      /\ ResponseTaken
      /\ ChanHead(pendingProcessCh).peerID = peerID[t]
      /\ ChanHead(pendingProcessCh).block.Height = num[t] ) =>
        /\ wpc'[t] = "fetched"
        /\ err'[t] = nil
        /\ block'[t] = ChanHead(pendingProcessCh).block

\* C17: with two requests waiting for different peers, the response that
\* answers one of them leaves pendingProcessCh only by being returned to
\* that request: the other session never removes it, so no request runs to
\* its deadline for a response the other one took.
C17_ResponseReachesItsSession == [][\A s, t \in Sessions : C17_Step(s, t)]_vars

\* -------------------------------------------------------------------- C18

\* Session s dispatched a request in this step: the first of a BlockRequest
\* call, or a retry.
FirstDispatch(s) == wpc[s] = "loop" /\ wpc'[s] \in {"wait", "fetched"}
Retry(s) == wpc[s] = "wait" /\ nReq'[s] = nReq[s] + 1

\* The step ended the call with errReqBlock and no block.
DispatchFailed(s) ==
    /\ wpc'[s] = "fetched"
    /\ err'[s] = errReqBlock
    /\ block'[s] = NilBlock

C18_Step(s) ==
    /\ FirstDispatch(s) =>
          /\ lastReq'[s] = <<peerID[s], num[s]>>
          /\ nReq'[s] = 1
          /\ wpc'[s] = "fetched" => DispatchFailed(s)
          /\ UNCHANGED <<pendingProcessCh, quitReqBlockCh>>
    /\ Retry(s) =>
          /\ retryC[s]
          /\ lastReq'[s] = lastReq[s]
          /\ lastReq'[s] = <<peerID[s], num[s]>>
          /\ \/ wpc'[s] = "wait" /\ ~retryC'[s] /\ syncWait'[s] = syncWait[s]
             \/ DispatchFailed(s)
          /\ UNCHANGED <<pendingProcessCh, quitReqBlockCh>>
    /\ (wpc[s] # "fetched" /\ wpc'[s] = "fetched" /\ err'[s] = errReqBlock) =>
          FirstDispatch(s) \/ Retry(s)

\* C18: the first dispatch of BlockRequest(peerID, height) asks for
\* (peerID, height) and, when it fails, ends the call with errReqBlock
\* before anything is received from pendingProcessCh or quitReqBlockCh;
\* every tick of the retry ticker can be answered by a new dispatch, with
\* the same (peerID, height), however many there were before, and a failed
\* one ends the call with errReqBlock; nothing else gives errReqBlock.
C18_DispatchAndRetry ==
    /\ [](\A s \in Sessions :
             (wpc[s] = "wait" /\ retryC[s]) => ENABLED RetryTick(s))
    /\ [][\A s \in Sessions : C18_Step(s)]_vars

\* The third dispatch of a request failed.
C18_Witness ==
    /\ wpc[1] = "fetched"
    /\ err[1] = errReqBlock
    /\ nReq[1] = 3

\* -------------------------------------------------------------------- C19

\* One request and everything that can reach its select loop: responses,
\* cancellation notices, retry ticks and the deadline.
NextWait ==
    \/ \E g \in Callers, b \in Blocks, p \in Peers : AddBlock(g, b, p)
    \/ \E p \in Peers : QuitSignal(p)
    \/ Tick
    \/ \E s \in Sessions, p \in Peers, m \in Heights : BlockRequestWorker(s, p, m)
    \/ \E s \in Sessions : BlockRequest(s)
    \/ \E s \in Sessions : RecvResponse(s)
    \/ \E s \in Sessions : RetryTick(s)
    \/ \E s \in Sessions : SyncTimeout(s)
    \/ \E s \in Sessions : RecvQuit(s)

\* Time passes, and a select whose deadline case stays ready takes it in
\* the end.
SpecWait ==
    /\ Init
    /\ [][NextWait]_vars
    /\ WF_vars(Tick)
    /\ \A s \in Sessions : WF_vars(SyncTimeout(s))

\* BlockRequest of session s has returned one of its four results.
Returned(s) ==
    /\ wpc[s] = "fetched"
    /\ \/ err[s] = nil /\ block[s] = Block(num[s])
       \/ err[s] \in {errReqBlock, errGetBlockTimeout, errPeerDropped}
          /\ block[s] = NilBlock

\* C19: every BlockRequest call that waits returns in the end, with the
\* block asked for or with errReqBlock, errGetBlockTimeout or
\* errPeerDropped, whatever responses, notices and retry ticks arrive in the
\* meantime; it is the deadline that ends a wait nothing else ends.
C19_RequestTerminates ==
    \A s \in Sessions : (wpc[s] = "wait") ~> Returned(s)

\* The deadline ended a request that had discarded a response and retried,
\* with a response and a notice for the other peer still queued.
C19_Witness ==
    /\ wpc[1] = "fetched"
    /\ err[1] = errGetBlockTimeout
    /\ skipped[1]
    /\ nReq[1] > 1
    /\ ChanReady(pendingProcessCh)
    /\ ChanHead(pendingProcessCh).peerID # peerID[1]
    /\ ChanReady(quitReqBlockCh)
    /\ ChanHead(quitReqBlockCh) # peerID[1]

\* -------------------------------------------------------------------- C20

\* C20: BlockRequestWorker returns nil, errCommAbnorm or errScamPeer and
\* nothing else; a call has called DropPeer exactly when it returns
\* errCommAbnorm and AddScamPeer exactly when it returns errScamPeer, once
\* each, and a call that has not returned has called neither.
C20_OutcomeClassification ==
    \A s \in Sessions :
        /\ nDrop[s] \in {0, 1}
        /\ nScam[s] \in {0, 1}
        /\ wpc[s] # "done" => (nDrop[s] = 0 /\ nScam[s] = 0)
        /\ wpc[s] = "done" =>
              /\ ret[s] \in {nil, errCommAbnorm, errScamPeer}
              /\ nDrop[s] = 1 <=> ret[s] = errCommAbnorm
              /\ nScam[s] = 1 <=> ret[s] = errScamPeer

\* A cancelled request made the driver drop the peer and return
\* errCommAbnorm, with no AddScamPeer.
C20_Witness ==
    /\ wpc[1] = "done"
    /\ ret[1] = errCommAbnorm
    /\ err[1] = errPeerDropped
    /\ nDrop[1] = 1
    /\ nScam[1] = 0

====
